---- MODULE Spec2Model ----
(***************************************************************************)
(* Verification model of the hull geometry and hydrostatics scripts of     *)
(* jax-vessels.                                                            *)
(*                                                                         *)
(*   SpecMesh   examples/scripts/generate_hull.py: the two hull generators *)
(*              and grid_to_mesh (flatten, triangulate, mirror, caps).     *)
(*   SpecDraft  scripts/calculate_draft.py: cumulative trapezoidal volume  *)
(*              and the inverse draft solve.                               *)
(*   SpecVerify scripts/analysis/verify_hydrostatics.py: main, with the    *)
(*              call of calculate_draft taken as one step.                 *)
(*   SpecHullCheck  scripts/verify_hull.py and scripts/core/verify_hull.py *)
(*              main: integrity, dimensions, status, report, exit.         *)
(*   SpecNurbs  examples/scripts/blender_nurbs_barge.py: the station loop  *)
(*              of create_nurbs_barge and get_section_profile.             *)
(*                                                                         *)
(* Lengths are fixed-point integers in centimetres (floor rounding).       *)
(* Python lists are TLA+ sequences; a Python index k is position k+1.      *)
(***************************************************************************)
EXTENDS Integers, Sequences, FiniteSets, TLC

VARIABLES
    \* ---- generate_hull.py ----
    hull,       \* "barge" | "tanker": which generator runs
    grid,       \* grid[i][j] = <<x, y, z>>, i in 0..nx, j in 0..ny
    verts,      \* list of <<x, y, z>>
    faces,      \* list of <<a, b, c>> (Python vertex indices)
    node_map,   \* (i, j) -> vertex index
    n_stbd,     \* len(verts) before mirroring
    ii, jj,     \* loop counters
    pc,         \* position in the generator
    \* ---- calculate_draft.py ----
    z_min, z_max,   \* mesh.bounds[4], mesh.bounds[5]
    areas,          \* waterplane area per sweep level
    target_mass, rho,
    volumes,        \* cumulative volume per sweep level
    iv,             \* loop counter of the integration loop
    idx,            \* result of searchsorted
    ret,            \* returned value: [kind, num, den], the number num/den
    dpc,            \* position in calculate_draft
    \* ---- analysis/verify_hydrostatics.py ----
    argc,           \* len(sys.argv)
    offset,         \* empirical offset, centimetres
    mass,           \* <<m>> parsed from the dynamicMesh dict, <<>> for None
    z_set,          \* <<z>> parsed from setFields (cm), <<>> for None
    z_calc,         \* value returned by calculate_draft
    exit_code,      \* <<c>> once sys.exit(c) was called
    vpc,            \* position in main
    \* ---- verify_hull.py and core/verify_hull.py ----
    script,         \* "scripts" | "core": which copy of verify_hull.py runs
    profile,        \* <<L, B, D>> of profile.json, <<>> without --profile
    mesh,           \* what trimesh.load returned
    passed_integrity, passed_dimensions,
    report,         \* the report dict
    output,         \* the report file: <<report>> once written
    hexit,          \* <<c>> once the process has ended with status c
    hpc,            \* position in main
    \* ---- blender_nurbs_barge.py ----
    config,         \* the BargeConfig
    u_count, v_count,   \* spline.point_count_u, spline.point_count_v
    u_idx,          \* station loop counter
    section,        \* locals and result of the last get_section_profile call
    points,         \* spline.points[k].co assigned so far, as <<x, y, z>>
    raised,         \* the exception that ended create_nurbs_barge, or "none"
    npc,            \* position in create_nurbs_barge
    \* ---- calculate_draft.py called twice on one hull ----
    prev,           \* target mass and returned value of the call before
    calls,          \* number of calls made
    \* ---- scripts/verify_hydrostatics.py ----
    opt,            \* the command line: mass, draft, water_density, tolerance (%)
    slice_areas,    \* the list areas of the slice loop
    gauss,          \* vol_hull_surf, wl_area and volume of the Gauss integral
    verdict,        \* "PASS" | "FAIL" once printed, else "none"
    advice,         \* "LIGHT" | "HEAVY" once printed, else "none"
    bexit,          \* <<c>> once the process has ended with status c
    bpc,            \* position in verify_hydrostatics
    \* ---- src/openfoam_runner/cli.py, tasks.py ----
    hull_stls,      \* the hull arguments: stem and content of each file
    parallel,       \* --parallel / --no-parallel
    case_dirs,      \* case_dir of each hull the loop has reached
    stage,          \* per hull, the status of each of its six tasks
    fs,             \* <<case dir, content of its constant/triSurface/hull.stl>>
    ri,             \* the loop index i of main
    rpc             \* position in main

meshVars == <<hull, grid, verts, faces, node_map, n_stbd, ii, jj, pc>>
draftVars == <<z_min, z_max, areas, target_mass, rho, volumes, iv, idx, ret, dpc>>
verifyVars == <<argc, offset, mass, z_set, z_calc, exit_code, vpc>>
hullCheckVars == <<script, profile, mesh, passed_integrity, passed_dimensions,
                   report, output, hexit, hpc>>
nurbsVars == <<config, u_count, v_count, u_idx, section, points, raised, npc>>
pairVars == <<prev, calls>>
balanceVars == <<opt, slice_areas, gauss, verdict, advice, bexit, bpc>>
runnerVars == <<hull_stls, parallel, case_dirs, stage, fs, ri, rpc>>
vars == <<meshVars, draftVars, verifyVars, hullCheckVars, nurbsVars, pairVars,
          balanceVars, runnerVars>>

\* What the steps of one script leave alone of the other scripts
nonMeshVars == <<draftVars, verifyVars, hullCheckVars, nurbsVars, pairVars, balanceVars, runnerVars>>
nonDraftVars == <<meshVars, verifyVars, hullCheckVars, nurbsVars, pairVars, balanceVars, runnerVars>>
nonVerifyVars == <<meshVars, hullCheckVars, nurbsVars, pairVars, balanceVars, runnerVars>>
nonHullCheckVars == <<meshVars, draftVars, verifyVars, nurbsVars, pairVars, balanceVars, runnerVars>>
nonNurbsVars == <<meshVars, draftVars, verifyVars, hullCheckVars, pairVars, balanceVars, runnerVars>>
nonPairVars == <<meshVars, verifyVars, hullCheckVars, nurbsVars, balanceVars, runnerVars>>
nonBalanceVars == <<meshVars, draftVars, verifyVars, hullCheckVars, nurbsVars,
                   pairVars, runnerVars>>
nonRunnerVars == <<meshVars, draftVars, verifyVars, hullCheckVars, nurbsVars,
                  pairVars, balanceVars>>

----------------------------------------------------------------------------
(* Bounds of the model *)

MaxNx == 3
MaxNy == 3
MaxSamples == 4     \* sweep levels (the script uses 200)
MaxArea == 2        \* waterplane areas are 0, 2, .., 2*MaxArea
MaxMass == 12       \* target masses are -1 .. MaxMass

----------------------------------------------------------------------------
(* Fixed-point helpers *)

Abs(a) == IF a < 0 THEN -a ELSE a

\* The largest k in lo..hi with k * k <= n, by bisection
RECURSIVE SqrtBetween(_, _, _)
SqrtBetween(n, lo, hi) ==
    IF lo >= hi THEN lo
    ELSE LET mid == (lo + hi + 1) \div 2
         IN  IF mid * mid <= n THEN SqrtBetween(n, mid, hi)
             ELSE SqrtBetween(n, lo, mid - 1)

\* floor(sqrt(n)) for 0 <= n <= 1000000 (math.sqrt on a value scaled by 10^6)
ISqrt(n) == SqrtBetween(n, 0, 1000)

----------------------------------------------------------------------------
(* generate_europe_iia_barge: dimensions in centimetres *)

BargeL == 7650
BargeB == 1140
BargeD == 400
BargeRakeLen == 600
BargeBilgeRadius == 50

BargeW == BargeB \div 2

\* x = (i / nx) * L
BargeX(i, nx) == (i * BargeL) \div nx

\* z_bottom: stern rake D*0.8*t^2, bow rake D*0.9*t^1.5, flat in between
BargeZBottom(x) ==
    IF x < BargeRakeLen
    THEN (8 * BargeD * (BargeRakeLen - x) * (BargeRakeLen - x))
            \div (10 * BargeRakeLen * BargeRakeLen)
    ELSE IF x > BargeL - BargeRakeLen
    THEN LET tn == x - (BargeL - BargeRakeLen)
             s  == ISqrt((1000000 * tn) \div BargeRakeLen)   \* 1000*sqrt(t)
         IN  (((9 * BargeD * tn) \div (10 * BargeRakeLen)) * s) \div 1000
    ELSE 0

\* eff_w: slight taper of the half-breadth within 1 m of either end
BargeEffW(x) ==
    LET w1 == IF x < 100 THEN (BargeW * (8000 + 20 * x)) \div 10000 ELSE BargeW
    IN  IF x > BargeL - 100
        THEN (BargeW * (8000 + 20 * (BargeL - x))) \div 10000
        ELSE w1

\* r = bilge_radius, clamped to eff_w
BargeR(x) == IF BargeBilgeRadius > BargeEffW(x) THEN BargeEffW(x) ELSE BargeBilgeRadius

\* One section point, t = j / ny: bottom (t < 0.4), bilge (t < 0.6), side.
\* In the bilge, sin(theta) and 1 - cos(theta) for theta = u*pi/2 are replaced
\* by the parabolas 2u - u^2 and u^2 (same end values, same monotonicity).
BargePoint(i, j, nx, ny) ==
    LET x  == BargeX(i, nx)
        zb == BargeZBottom(x)
        ew == BargeEffW(x)
        r  == BargeR(x)
    IN  IF 5 * j < 2 * ny
        THEN <<x, (5 * j * (ew - r)) \div (2 * ny), zb>>
        ELSE IF 5 * j < 3 * ny
        THEN LET p == 5 * j - 2 * ny
             IN  <<x,
                   (ew - r) + (r * (2 * p * ny - p * p)) \div (ny * ny),
                   zb + (r * p * p) \div (ny * ny)>>
        ELSE <<x, ew,
               (zb + r) + ((5 * j - 3 * ny) * (BargeD - (zb + r))) \div (2 * ny)>>

BargeGrid(nx, ny) ==
    [i \in 0..nx |-> [j \in 0..ny |-> BargePoint(i, j, nx, ny)]]

----------------------------------------------------------------------------
(* generate_kvlcc2_improved: dimensions in centimetres *)

TankerL == 32000
TankerB == 5800
TankerD == 3000
BulbCenterZ == 1000
BulbRadiusY == 600
BulbRadiusZ == 800

TankerW == TankerB \div 2

TankerX(i, nx) == (i * TankerL) \div nx

\* Breadth factor bx, scaled by 1000.  The power u^0.6 is replaced by u
\* (same end values 0 and 1, same monotonicity).
TankerBx(x) ==
    LET pmb_start == TankerL \div 5
        pmb_end   == (4 * TankerL) \div 5
    IN  IF x < pmb_start THEN (1000 * x) \div pmb_start
        ELSE IF x > pmb_end THEN (1000 * (TankerL - x)) \div (TankerL - pmb_end)
        ELSE 1000

\* Width of the bulb at height z for station x, or -1 where the bulb does not
\* apply (the nested conditions of the source).
TankerBulbWidth(x, z) ==
    IF ~(10 * x > 9 * TankerL) THEN -1
    ELSE IF ~(100 * x > 92 * TankerL) THEN -1
    ELSE IF ~(x - TankerL > -1200) THEN -1
    ELSE LET dx1000  == (1000 * (TankerL - x)) \div 1200
             prof    == ISqrt(1000000 - dx1000 * dx1000)   \* 1000*bulb_profile
             bulb_y  == (BulbRadiusY * prof) \div 1000
             hz      == (BulbRadiusZ * prof) \div 1000
         IN  IF ~(z < BulbCenterZ + hz /\ z > BulbCenterZ - hz) THEN -1
             ELSE LET rel == (1000 * Abs(z - BulbCenterZ)) \div hz
                  IN  IF ~(rel < 1000) THEN -1
                      ELSE (bulb_y * ISqrt(1000000 - rel * rel)) \div 1000

\* One section point.  sin(theta)^(2/n) and cos(theta)^(2/n) for
\* theta = (j/ny)*pi/2 are replaced by t(2-t) and 1 - t^2, t = j/ny
\* (same end values, same monotonicity).
TankerPoint(i, j, nx, ny) ==
    LET x      == TankerX(i, nx)
        sin_n  == (1000 * j * (2 * ny - j)) \div (ny * ny)
        y_base == (((TankerW * TankerBx(x)) \div 1000) * sin_n) \div 1000
        z_base == (TankerD * j * j) \div (ny * ny)
        bw     == TankerBulbWidth(x, z_base)
    IN  <<x, IF bw > y_base THEN bw ELSE y_base, z_base>>

TankerGrid(nx, ny) ==
    [i \in 0..nx |-> [j \in 0..ny |-> TankerPoint(i, j, nx, ny)]]

----------------------------------------------------------------------------
(* grid_to_mesh *)

Nx == Cardinality(DOMAIN grid) - 1      \* nx = len(grid) - 1
Ny == Cardinality(DOMAIN grid[0]) - 1   \* ny = len(grid[0]) - 1

\* Mutant of MirrorVert: the port copy left on the starboard side
MirrorVertSameSide(v) == <<v[1], v[2], v[3]>>

\* [v[0], -v[1], v[2]]
MirrorVert(v) == <<v[1], -v[2], v[3]>>

\* The two triangles of one starboard quad
StbdFaces(p0, p1, p2, p3) == << <<p0, p1, p2>>, <<p0, p2, p3>> >>

\* [f[0] + n_stbd, f[2] + n_stbd, f[1] + n_stbd]
MirrorFace(f, n) == <<f[1] + n, f[3] + n, f[2] + n>>

\* The two triangles closing the transom between girth points j and j+1
TransomFaces(s0, s1, p0, p1) == << <<s1, s0, p0>>, <<s1, p0, p1>> >>

\* Mutant of BowFaces: the port corner of the second triangle one index on
BowFacesPastEnd(s0, s1, p0, p1) == << <<s0, p0, p1>>, <<s0, p1 + 1, s1>> >>

\* The two triangles closing the bow between girth points j and j+1
BowFaces(s0, s1, p0, p1) == << <<s0, p0, p1>>, <<s0, p1, s1>> >>

\* generate_europe_iia_barge builds its grid and calls grid_to_mesh
GenerateBarge ==
    /\ pc = "start" /\ hull = "barge"
    /\ \E nx \in 1..MaxNx, ny \in 1..MaxNy : grid' = BargeGrid(nx, ny)
    /\ pc' = "flatten" /\ ii' = 0 /\ jj' = 0
    /\ UNCHANGED <<hull, verts, faces, node_map, n_stbd, nonMeshVars>>

\* generate_kvlcc2_improved builds its grid and calls grid_to_mesh
GenerateTanker ==
    /\ pc = "start" /\ hull = "tanker"
    /\ \E nx \in 1..MaxNx, ny \in 1..MaxNy : grid' = TankerGrid(nx, ny)
    /\ pc' = "flatten" /\ ii' = 0 /\ jj' = 0
    /\ UNCHANGED <<hull, verts, faces, node_map, n_stbd, nonMeshVars>>

\* Flatten Stbd grid: one vertex per (i, j), index = running count
FlattenStbd ==
    /\ pc = "flatten"
    /\ verts' = Append(verts, grid[ii][jj])
    /\ node_map' = (<<ii, jj>> :> Len(verts)) @@ node_map
    /\ IF jj < Ny THEN /\ jj' = jj + 1 /\ ii' = ii /\ pc' = pc
       ELSE IF ii < Nx THEN /\ jj' = 0 /\ ii' = ii + 1 /\ pc' = pc
       ELSE /\ jj' = 0 /\ ii' = 0 /\ pc' = "triangulate"
    /\ UNCHANGED <<hull, grid, faces, n_stbd, nonMeshVars>>

\* Triangulate Stbd: for i in range(nx), for j in range(ny)
TriangulateStbd ==
    /\ pc = "triangulate"
    /\ LET p0 == node_map[<<ii, jj>>]
           p1 == node_map[<<ii + 1, jj>>]
           p2 == node_map[<<ii + 1, jj + 1>>]
           p3 == node_map[<<ii, jj + 1>>]
       IN  faces' = faces \o StbdFaces(p0, p1, p2, p3)
    /\ IF jj + 1 < Ny THEN /\ jj' = jj + 1 /\ ii' = ii /\ pc' = pc
       ELSE IF ii + 1 < Nx THEN /\ jj' = 0 /\ ii' = ii + 1 /\ pc' = pc
       ELSE /\ jj' = 0 /\ ii' = 0 /\ pc' = "mirror_verts"
    /\ UNCHANGED <<hull, grid, verts, node_map, n_stbd, nonMeshVars>>

\* Mirror Port side: every vertex appended again with y negated
MirrorVerts ==
    /\ pc = "mirror_verts"
    /\ n_stbd' = Len(verts)
    /\ verts' = verts \o [k \in 1..Len(verts) |-> MirrorVert(verts[k])]
    /\ pc' = "mirror_faces"
    /\ UNCHANGED <<hull, grid, faces, node_map, ii, jj, nonMeshVars>>

\* Every starboard face appended again, offset and with reversed winding
MirrorFaces ==
    /\ pc = "mirror_faces"
    /\ faces' = faces \o [k \in 1..Len(faces) |-> MirrorFace(faces[k], n_stbd)]
    /\ pc' = "transom" /\ jj' = 0
    /\ UNCHANGED <<hull, grid, verts, node_map, n_stbd, ii, nonMeshVars>>

\* Transom closure: for j in range(ny)
CloseTransom ==
    /\ pc = "transom"
    /\ LET s0 == node_map[<<0, jj>>]
           s1 == node_map[<<0, jj + 1>>]
           p0 == s0 + n_stbd
           p1 == s1 + n_stbd
       IN  faces' = faces \o TransomFaces(s0, s1, p0, p1)
    /\ IF jj + 1 < Ny THEN /\ jj' = jj + 1 /\ pc' = pc
       ELSE /\ jj' = 0 /\ pc' = "return"
    /\ UNCHANGED <<hull, grid, verts, node_map, n_stbd, ii, nonMeshVars>>

\* grid_to_mesh returns; the barge generator returns its result unchanged,
\* the tanker generator goes on to cap the bow
ReturnMesh ==
    /\ pc = "return"
    /\ pc' = IF hull = "tanker" THEN "bowcap" ELSE "done"
    /\ UNCHANGED <<hull, grid, verts, faces, node_map, n_stbd, ii, jj, nonMeshVars>>

\* generate_kvlcc2_improved: explicitly close the bow (i = nx), for j in range(ny)
CloseBow ==
    /\ pc = "bowcap"
    /\ LET bow_stbd_start == Nx * (Ny + 1)
           n_total_half   == (Nx + 1) * (Ny + 1)
           s0 == bow_stbd_start + jj
           s1 == bow_stbd_start + jj + 1
           p0 == s0 + n_total_half
           p1 == s1 + n_total_half
       IN  faces' = faces \o BowFaces(s0, s1, p0, p1)
    /\ IF jj + 1 < Ny THEN /\ jj' = jj + 1 /\ pc' = pc
       ELSE /\ jj' = 0 /\ pc' = "done"
    /\ UNCHANGED <<hull, grid, verts, node_map, n_stbd, ii, nonMeshVars>>

NoValue == [kind |-> "none", num |-> 0, den |-> 1]

DraftIdle ==
    /\ z_min = 0 /\ z_max = 0 /\ areas = <<>> /\ target_mass = 0 /\ rho = 1
    /\ volumes = <<>> /\ iv = 0 /\ idx = 0 /\ ret = NoValue /\ dpc = "idle"

MeshIdle ==
    /\ hull = "none" /\ grid = <<>> /\ verts = <<>> /\ faces = <<>>
    /\ node_map = <<>> /\ n_stbd = 0 /\ ii = 0 /\ jj = 0 /\ pc = "idle"

VerifyIdle ==
    /\ argc = 0 /\ offset = 0 /\ mass = <<>> /\ z_set = <<>>
    /\ z_calc = NoValue /\ exit_code = <<>> /\ vpc = "idle"

NoMesh == [loaded |-> FALSE, is_watertight |-> FALSE,
           is_winding_consistent |-> FALSE, extents |-> <<0, 0, 0>>]

\* report = {"hull": ..., "checks": {}, "dimensions": {}, "status": "UNKNOWN"}
EmptyReport == [status |-> "UNKNOWN", checks |-> <<>>]

HullCheckIdle ==
    /\ script = "none" /\ profile = <<>> /\ mesh = NoMesh
    /\ passed_integrity = FALSE /\ passed_dimensions = FALSE
    /\ report = EmptyReport /\ output = <<>> /\ hexit = <<>> /\ hpc = "idle"

\* BargeConfig(): the defaults of the dataclass, in centimetres
DefaultConfig ==
    [length |-> 13500, beam |-> 1420, depth |-> 400, bilge_radius |-> 120,
     parallel_midbody_start |-> 2000, parallel_midbody_end |-> 11500,
     bow_rake_len |-> 2000, stern_rake_len |-> 2500,
     stern_tunnel_height |-> 180]

NoSection == [x |-> 0, width_fac |-> 0, curr_half_b |-> 0, keel_z |-> 0,
              deck_z |-> 0, curr_r |-> 0, pts |-> <<>>]

NurbsIdle ==
    /\ config = DefaultConfig /\ u_count = 0 /\ v_count = 0 /\ u_idx = 0
    /\ section = NoSection /\ points = <<>> /\ raised = "none" /\ npc = "idle"

PairIdle == prev = [mass |-> 0, ret |-> NoValue] /\ calls = 0

NoOptions == [mass |-> 0, draft |-> 0, water_density |-> 0, tolerance |-> 0]

NoGauss == [done |-> FALSE, vol_hull_surf |-> 0, wl_area |-> 0, volume |-> 0]

BalanceIdle ==
    /\ opt = NoOptions /\ slice_areas = <<>> /\ gauss = NoGauss
    /\ verdict = "none" /\ advice = "none" /\ bexit = <<>> /\ bpc = "idle"

RunnerIdle ==
    /\ hull_stls = <<>> /\ parallel = FALSE /\ case_dirs = <<>>
    /\ stage = <<>> /\ fs = {} /\ ri = 0 /\ rpc = "idle"

InitMesh ==
    /\ hull \in {"barge", "tanker"}
    /\ grid = <<>> /\ verts = <<>> /\ faces = <<>> /\ node_map = <<>>
    /\ n_stbd = 0 /\ ii = 0 /\ jj = 0 /\ pc = "start"
    /\ DraftIdle
    /\ VerifyIdle
    /\ HullCheckIdle
    /\ NurbsIdle
    /\ PairIdle
    /\ BalanceIdle
    /\ RunnerIdle

NextMesh ==
    \/ GenerateBarge
    \/ GenerateTanker
    \/ FlattenStbd
    \/ TriangulateStbd
    \/ MirrorVerts
    \/ MirrorFaces
    \/ CloseTransom
    \/ ReturnMesh
    \/ CloseBow

SpecMesh == InitMesh /\ [][NextMesh]_vars

----------------------------------------------------------------------------
(* Mesh measurements used by the properties *)

MeshDone == pc = "done"

\* Coordinates of vertex index k
Coord(k) == verts[k + 1]

FaceIds == 1..Len(faces)

\* The three directed sides of face f, as pairs of coordinates
Sides(f) ==
    { <<Coord(faces[f][1]), Coord(faces[f][2])>>,
      <<Coord(faces[f][2]), Coord(faces[f][3])>>,
      <<Coord(faces[f][3]), Coord(faces[f][1])>> }

\* A face two of whose corners coincide has no area
Collapsed(f) == \E s \in Sides(f) : s[1] = s[2]

SolidFaces == {f \in FaceIds : ~Collapsed(f)}

DirectedEdges == UNION {Sides(f) : f \in SolidFaces}

\* Number of triangles that traverse a -> b
DirCount(a, b) == Cardinality({f \in SolidFaces : <<a, b>> \in Sides(f)})

\* Number of triangles incident to the undirected edge {a, b}
UndirCount(a, b) ==
    Cardinality({f \in SolidFaces : <<a, b>> \in Sides(f) \/ <<b, a>> \in Sides(f)})

\* Right-hand-rule normal (b - a) x (c - a) of face f
Normal(f) ==
    LET a == Coord(faces[f][1])
        b == Coord(faces[f][2])
        c == Coord(faces[f][3])
        u == <<b[1] - a[1], b[2] - a[2], b[3] - a[3]>>
        v == <<c[1] - a[1], c[2] - a[2], c[3] - a[3]>>
    IN  <<u[2] * v[3] - u[3] * v[2],
          u[3] * v[1] - u[1] * v[3],
          u[1] * v[2] - u[2] * v[1]>>

NonDegenerate(f) == Normal(f) # <<0, 0, 0>>

\* Position of each group of faces in the returned list
NShell == 2 * Nx * Ny
StbdShellFaces == 1..NShell
PortShellFaces == (NShell + 1)..(2 * NShell)
TransomCapFaces == (2 * NShell + 1)..(2 * NShell + 2 * Ny)
BowCapFaces == (2 * NShell + 2 * Ny + 1)..Len(faces)

----------------------------------------------------------------------------
(* calculate_draft *)

\* Number of sweep levels: len(z_sweep) = len(areas) = len(volumes)
NLevels == Len(areas)

\* z_sweep[i] of np.linspace(z_min, z_max, NLevels), i a Python index
ZSweep(i) == z_min + (i * (z_max - z_min)) \div (NLevels - 1)

\* Mutant of VSlab: the slab taken from the difference of the two areas
VSlabDiff(i) ==
    LET dz == ZSweep(i) - ZSweep(i - 1)
    IN  ((areas[i + 1] - areas[i]) * dz) \div 2

\* v_slab = 0.5 * (areas[i] + areas[i-1]) * dz, i a Python index >= 1
VSlab(i) ==
    LET dz == ZSweep(i) - ZSweep(i - 1)
    IN  ((areas[i + 1] + areas[i]) * dz) \div 2

\* Mutant of BelowTarget: the comparison of side = 'right'
BelowOrAtTarget(v) == v * rho <= target_mass

\* volumes[k] < target_volume, with target_volume = target_mass / rho
BelowTarget(v) == v * rho < target_mass

\* np.searchsorted(volumes, target_volume), side = 'left': binary search
RECURSIVE BinSearch(_, _)
BinSearch(lo, hi) ==
    IF lo < hi
    THEN LET mid == lo + (hi - lo) \div 2
         IN  IF BelowTarget(volumes[mid + 1])
             THEN BinSearch(mid + 1, hi)
             ELSE BinSearch(lo, mid)
    ELSE lo

\* Mutant of SearchSorted: the index of the last sample not above the target
SearchSortedLastAtMost ==
    LET S == {k \in 1..Len(volumes) : volumes[k] * rho <= target_mass}
    IN  IF S = {} THEN 0 ELSE (CHOOSE k \in S : \A m \in S : m <= k) - 1

SearchSorted == BinSearch(0, Len(volumes))

Number(n, d) ==
    IF d = 0 THEN [kind |-> "nan", num |-> 0, den |-> 1]
    ELSE IF d < 0 THEN [kind |-> "number", num |-> -n, den |-> -d]
    ELSE [kind |-> "number", num |-> n, den |-> d]

\* Mutant of Interpolate: the levels of the bracket taken one index too high
InterpolateShifted(k) ==
    LET z_low  == ZSweep(k)
        z_high == ZSweep(k + 1)
        v_low  == volumes[k]
        v_high == volumes[k + 1]
        fn == target_mass - v_low * rho
        fd == (v_high - v_low) * rho
    IN  Number(z_low * fd + fn * (z_high - z_low), fd)

\* Mutant of Interpolate: the fraction measured down from z_high
InterpolateFromTop(k) ==
    LET z_low  == ZSweep(k - 1)
        z_high == ZSweep(k)
        v_low  == volumes[k]
        v_high == volumes[k + 1]
        fn == target_mass - v_low * rho
        fd == (v_high - v_low) * rho
    IN  Number(z_high * fd - fn * (z_high - z_low), fd)

\* Mutant of Interpolate: the fraction taken as target_volume / v_high
InterpolateNoOffset(k) ==
    LET z_low  == ZSweep(k - 1)
        z_high == ZSweep(k)
        v_high == volumes[k + 1]
        fn == target_mass
        fd == v_high * rho
    IN  Number(z_low * fd + fn * (z_high - z_low), fd)

\* target_z = z_low + fraction * (z_high - z_low),
\* fraction = (target_volume - v_low) / (v_high - v_low)
Interpolate(k) ==
    LET z_low  == ZSweep(k - 1)
        z_high == ZSweep(k)
        v_low  == volumes[k]
        v_high == volumes[k + 1]
        fn == target_mass - v_low * rho     \* fraction = fn / fd
        fd == (v_high - v_low) * rho
    IN  Number(z_low * fd + fn * (z_high - z_low), fd)

\* Cumulative trapezoidal rule: one iteration of for i in range(1, len(z_sweep))
Integrate ==
    /\ dpc = "integrate"
    /\ iv < NLevels
    /\ volumes' = [volumes EXCEPT ![iv + 1] = volumes[iv] + VSlab(iv)]
    /\ iv' = iv + 1
    /\ dpc' = IF iv + 1 < NLevels THEN "integrate" ELSE "search"
    /\ UNCHANGED <<z_min, z_max, areas, target_mass, rho, idx, ret, nonDraftVars>>

\* idx = np.searchsorted(volumes, target_volume)
Search ==
    /\ dpc = "search"
    /\ idx' = SearchSorted
    /\ dpc' = "branch"
    /\ UNCHANGED <<z_min, z_max, areas, target_mass, rho, volumes, iv, ret, nonDraftVars>>

\* if idx == 0: return z_min
ReturnBelowMin ==
    /\ dpc = "branch" /\ idx = 0
    /\ ret' = Number(z_min, 1)
    /\ dpc' = "done"
    /\ UNCHANGED <<z_min, z_max, areas, target_mass, rho, volumes, iv, idx, nonDraftVars>>

\* if idx >= len(volumes): return z_max
ReturnSubmerged ==
    /\ dpc = "branch" /\ idx # 0 /\ idx >= Len(volumes)
    /\ ret' = Number(z_max, 1)
    /\ dpc' = "done"
    /\ UNCHANGED <<z_min, z_max, areas, target_mass, rho, volumes, iv, idx, nonDraftVars>>

\* Linear interpolation within the bracket (idx-1, idx)
ReturnInterpolated ==
    /\ dpc = "branch" /\ idx # 0 /\ idx < Len(volumes)
    /\ ret' = Interpolate(idx)
    /\ dpc' = "done"
    /\ UNCHANGED <<z_min, z_max, areas, target_mass, rho, volumes, iv, idx, nonDraftVars>>

AreaValues == {2 * a : a \in 0..MaxArea}

\* State on entry of the integration loop: bounds and areas of any hull,
\* volumes = np.zeros_like(areas)
InitDraft ==
    /\ \E n \in 2..MaxSamples :
          /\ areas \in [1..n -> AreaValues]
          /\ z_min \in {-1, 0}
          /\ \E h \in {1, 2} : z_max = z_min + (n - 1) * h
          /\ volumes = [k \in 1..n |-> 0]
    /\ target_mass \in -1..MaxMass
    /\ rho \in {1, 3}
    /\ iv = 1 /\ idx = 0 /\ ret = NoValue /\ dpc = "integrate"
    /\ MeshIdle
    /\ VerifyIdle
    /\ HullCheckIdle
    /\ NurbsIdle
    /\ PairIdle
    /\ BalanceIdle
    /\ RunnerIdle

NextDraft ==
    \/ Integrate
    \/ Search
    \/ ReturnBelowMin
    \/ ReturnSubmerged
    \/ ReturnInterpolated

SpecDraft == InitDraft /\ [][NextDraft]_vars

----------------------------------------------------------------------------
(* analysis/verify_hydrostatics.py: main.  Heights in centimetres. *)

MaxLevel == 12      \* configured water levels are 0 .. MaxLevel

Tolerance == 5          \* if diff > 0.05
DefaultOffset == 10     \* else 0.10
WaterDensity == 1       \* rho=1025.0, in model mass units per volume unit

\* volumes[i] after the whole integration loop, i a Python index
RECURSIVE CumVolume(_)
CumVolume(i) == IF i = 0 THEN 0 ELSE CumVolume(i - 1) + VSlab(i)

\* The volumes array calculate_draft has built when its loop ends
FinalVolumes == [k \in 1..NLevels |-> CumVolume(k - 1)]

\* The value calculate_draft returns for the idx it found
ReturnValue ==
    IF idx = 0 THEN Number(z_min, 1)
    ELSE IF idx >= Len(volumes) THEN Number(z_max, 1)
    ELSE Interpolate(idx)

\* Mutant of ToleranceExceeded: the offset left out of the target
ToleranceExceededNoOffset(zs, zc, off) ==
    /\ zc.kind = "number"
    /\ Abs(zs * zc.den - zc.num) > Tolerance * zc.den

\* z_target = z_calc + offset; diff = abs(z_set - z_target); diff > 0.05
\* (a nan compares False with everything)
ToleranceExceeded(zs, zc, off) ==
    /\ zc.kind = "number"
    /\ Abs(zs * zc.den - (zc.num + off * zc.den)) > Tolerance * zc.den

\* sys.exit(c)
Exit(c) == exit_code' = <<c>> /\ vpc' = "exited"

\* if len(sys.argv) < 2: usage, sys.exit(1)
UsageExit ==
    /\ vpc = "args" /\ argc < 2
    /\ Exit(1)
    /\ UNCHANGED <<argc, offset, mass, z_set, z_calc, draftVars, nonVerifyVars>>

\* offset = float(sys.argv[2]) if len(sys.argv) > 2 else 0.10
ReadOffset ==
    /\ vpc = "args" /\ argc >= 2
    /\ offset' = IF argc > 2 THEN 0 ELSE DefaultOffset
    /\ vpc' = "mass"
    /\ UNCHANGED <<argc, mass, z_set, z_calc, exit_code, draftVars, nonVerifyVars>>

\* mass = parse_openfoam_value(...); if mass is None: sys.exit(1)
ReadMass ==
    /\ vpc = "mass"
    /\ mass' \in {<<>>} \cup {<<m>> : m \in 0..MaxMass}
    /\ IF mass' = <<>> THEN Exit(1) ELSE vpc' = "level" /\ UNCHANGED exit_code
    /\ UNCHANGED <<argc, offset, z_set, z_calc, draftVars, nonVerifyVars>>

\* z_set = parse_openfoam_value(...); if z_set is None: sys.exit(1)
ReadWaterLevel ==
    /\ vpc = "level"
    /\ z_set' \in {<<>>} \cup {<<z>> : z \in 0..MaxLevel}
    /\ IF z_set' = <<>> THEN Exit(1) ELSE vpc' = "hull" /\ UNCHANGED exit_code
    /\ UNCHANGED <<argc, offset, mass, z_calc, draftVars, nonVerifyVars>>

\* if not hull_stl.exists(): sys.exit(1)
HullMissing ==
    /\ vpc = "hull"
    /\ Exit(1)
    /\ UNCHANGED <<argc, offset, mass, z_set, z_calc, draftVars, nonVerifyVars>>

\* z_calc = calculate_draft(str(hull_stl), mass, rho=1025.0): the whole call,
\* on the bounds and waterplane areas of whatever hull.stl holds
CallCalculateDraft ==
    /\ vpc = "hull"
    /\ \E n \in 2..MaxSamples :
          /\ areas' \in [1..n -> AreaValues]
          /\ z_min' \in {-1, 0}
          /\ \E h \in {1, 2} : z_max' = z_min' + (n - 1) * h
          /\ iv' = n
    /\ target_mass' = mass[1]
    /\ rho' = WaterDensity
    /\ volumes' = FinalVolumes'
    /\ idx' = SearchSorted'
    /\ ret' = ReturnValue'
    /\ dpc' = "done"
    /\ z_calc' = ret'
    /\ vpc' = "compare"
    /\ UNCHANGED <<argc, offset, mass, z_set, exit_code, nonVerifyVars>>

\* if diff > 0.05: FAILURE, sys.exit(1)  else: SUCCESS, sys.exit(0)
Compare ==
    /\ vpc = "compare"
    /\ IF ToleranceExceeded(z_set[1], z_calc, offset) THEN Exit(1) ELSE Exit(0)
    /\ UNCHANGED <<argc, offset, mass, z_set, z_calc, draftVars, nonVerifyVars>>

InitVerify ==
    /\ argc \in 1..3
    /\ offset = 0 /\ mass = <<>> /\ z_set = <<>>
    /\ z_calc = NoValue /\ exit_code = <<>> /\ vpc = "args"
    /\ MeshIdle
    /\ DraftIdle
    /\ HullCheckIdle
    /\ NurbsIdle
    /\ PairIdle
    /\ BalanceIdle
    /\ RunnerIdle

NextVerify ==
    \/ UsageExit
    \/ ReadOffset
    \/ ReadMass
    \/ ReadWaterLevel
    \/ HullMissing
    \/ CallCalculateDraft
    \/ Compare

SpecVerify == InitVerify /\ [][NextVerify]_vars

----------------------------------------------------------------------------
(* verify_hull.py and core/verify_hull.py: main.  Extents in centimetres. *)

\* abs(extent - expected) / expected > 1/inv, for expected > 0
DimensionError(extent, expected, inv) == inv * Abs(extent - expected) > expected

\* scripts: passed_integrity = is_watertight and is_winding_consistent
\* core:    passed_integrity = is_watertight
PassedIntegrity(m) ==
    IF script = "scripts" THEN m.is_watertight /\ m.is_winding_consistent
    ELSE m.is_watertight

\* scripts: the extents against the profile (5% on length and beam, 10% on
\* depth; an expected value of 0 is not checked);  core: always True
PassedDimensions ==
    IF script = "scripts" /\ profile # <<>>
    THEN /\ ~(profile[1] > 0 /\ DimensionError(mesh.extents[1], profile[1], 20))
         /\ ~(profile[2] > 0 /\ DimensionError(mesh.extents[2], profile[2], 20))
         /\ ~(profile[3] > 0 /\ DimensionError(mesh.extents[3], profile[3], 10))
    ELSE TRUE

\* sys.exit(c), or main returning (status 0)
HullExit(c) == hexit' = <<c>> /\ hpc' = "exited"

\* except Exception: status FAILED_LOAD, report written, sys.exit(1)
LoadFailed ==
    /\ hpc = "load"
    /\ report' = [report EXCEPT !.status = "FAILED_LOAD"]
    /\ output' = <<report'>>
    /\ HullExit(1)
    /\ UNCHANGED <<script, profile, mesh, passed_integrity, passed_dimensions,
                   nonHullCheckVars>>

\* mesh = trimesh.load(hull): any mesh
LoadMesh ==
    /\ hpc = "load"
    /\ \E wt \in BOOLEAN, wc \in BOOLEAN, ex \in {10500, 10501}, ez \in {440, 441} :
          mesh' = [loaded |-> TRUE, is_watertight |-> wt,
                   is_winding_consistent |-> wc, extents |-> <<ex, 1000, ez>>]
    /\ hpc' = "integrity"
    /\ UNCHANGED <<script, profile, passed_integrity, passed_dimensions,
                   report, output, hexit, nonHullCheckVars>>

\* 1. Integrity
CheckIntegrity ==
    /\ hpc = "integrity"
    /\ report' = [report EXCEPT !.checks =
                     [watertight |-> mesh.is_watertight,
                      winding_consistent |-> mesh.is_winding_consistent]]
    /\ passed_integrity' = PassedIntegrity(mesh)
    /\ hpc' = "dimensions"
    /\ UNCHANGED <<script, profile, mesh, passed_dimensions, output, hexit,
                   nonHullCheckVars>>

\* 2. Dimensions
CheckDimensions ==
    /\ hpc = "dimensions"
    /\ passed_dimensions' = PassedDimensions
    /\ hpc' = "status"
    /\ UNCHANGED <<script, profile, mesh, passed_integrity, report, output, hexit,
                   nonHullCheckVars>>

\* Final Status
FinalStatus ==
    /\ hpc = "status"
    /\ report' = [report EXCEPT !.status =
                     IF passed_integrity /\ passed_dimensions
                     THEN "APPROVED" ELSE "REJECTED"]
    /\ hpc' = "write"
    /\ UNCHANGED <<script, profile, mesh, passed_integrity, passed_dimensions,
                   output, hexit, nonHullCheckVars>>

\* json.dump(report, f)
WriteReport ==
    /\ hpc = "write"
    /\ output' = <<report>>
    /\ hpc' = "saved"
    /\ UNCHANGED <<script, profile, mesh, passed_integrity, passed_dimensions,
                   report, hexit, nonHullCheckVars>>

\* if report["status"] != "APPROVED": "... proceeding (soft failure)", sys.exit(0)
SoftFailure ==
    /\ hpc = "saved" /\ report.status # "APPROVED"
    /\ HullExit(0)
    /\ UNCHANGED <<script, profile, mesh, passed_integrity, passed_dimensions,
                   report, output, nonHullCheckVars>>

\* main returns
ReturnApproved ==
    /\ hpc = "saved" /\ report.status = "APPROVED"
    /\ HullExit(0)
    /\ UNCHANGED <<script, profile, mesh, passed_integrity, passed_dimensions,
                   report, output, nonHullCheckVars>>

InitHullCheck ==
    /\ script \in {"scripts", "core"}
    /\ profile \in {<<>>} \cup ({0, 10000} \X {0, 1000} \X {0, 400})
    /\ mesh = NoMesh
    /\ passed_integrity = FALSE /\ passed_dimensions = FALSE
    /\ report = EmptyReport /\ output = <<>> /\ hexit = <<>> /\ hpc = "load"
    /\ MeshIdle
    /\ DraftIdle
    /\ VerifyIdle
    /\ NurbsIdle
    /\ PairIdle
    /\ BalanceIdle
    /\ RunnerIdle

NextHullCheck ==
    \/ LoadFailed
    \/ LoadMesh
    \/ CheckIntegrity
    \/ CheckDimensions
    \/ FinalStatus
    \/ WriteReport
    \/ SoftFailure
    \/ ReturnApproved

SpecHullCheck == InitHullCheck /\ [][NextHullCheck]_vars

----------------------------------------------------------------------------
(* blender_nurbs_barge.py: create_nurbs_barge and get_section_profile.      *)
(* Lengths in centimetres, width_fac scaled by 1000.                        *)

MaxPointsU == 10    \* spline.point_count_u is 2 .. MaxPointsU
MaxPointsV == 10    \* spline.point_count_v is 2 .. MaxPointsV

\* x_targets
XTargets == <<0, 200, 800, 2000, 4500, 9000, 11500, 12500, 13200, 13500>>

\* real_x_coords[i]: x_targets itself when u_count == len(x_targets), else
\* the linear resampling of x_targets at f_idx = i / (u_count - 1) * 9
RealXCoord(i) ==
    IF u_count = Len(XTargets) THEN XTargets[i + 1]
    ELSE LET n == (Len(XTargets) - 1) * i
             d == u_count - 1
             idx_low  == n \div d
             idx_high == IF idx_low + 1 < Len(XTargets) - 1
                         THEN idx_low + 1 ELSE Len(XTargets) - 1
         IN  XTargets[idx_low + 1]
             + ((XTargets[idx_high + 1] - XTargets[idx_low + 1]) * (n % d)) \div d

\* HalfB = B / 2.0
HalfB == config.beam \div 2

\* 0.6 + 0.4 * t**0.5, t = x / parallel_midbody_start
SternTaper(x) ==
    LET t == (1000 * x) \div config.parallel_midbody_start    \* 1000 * t
        r == ISqrt(1000 * t)                                  \* 1000 * sqrt(t)
    IN  600 + (4 * r) \div 10

\* 1.0 - 0.9 * t**1.5, t = (x - parallel_midbody_end) / bow_rake_len
BowTaper(x) ==
    LET t == (1000 * (x - config.parallel_midbody_end)) \div config.bow_rake_len
        r == ISqrt(10 * t)                                    \* 100 * sqrt(t)
    IN  1000 - (9 * ((t * r) \div 100)) \div 10

\* Mutant of WidthFac: the stern taper taken without its square root
WidthFacLinearBelow(x) ==
    IF x < config.parallel_midbody_start
    THEN 600 - (400 * x) \div config.parallel_midbody_start
    ELSE IF x > config.parallel_midbody_end THEN BowTaper(x)
    ELSE 1000

\* width_fac
WidthFac(x) ==
    IF x < config.parallel_midbody_start THEN SternTaper(x)
    ELSE IF x > config.parallel_midbody_end THEN BowTaper(x)
    ELSE 1000

\* curr_half_b = HalfB * width_fac
CurrHalfB(x) == (HalfB * WidthFac(x)) \div 1000

\* Mutant of KeelZ: t measured from the stern instead of from the rake end
KeelZFromStern(x) ==
    IF x < config.stern_rake_len
    THEN (config.stern_tunnel_height * x * x)
            \div (config.stern_rake_len * config.stern_rake_len)
    ELSE 0

\* keel_z = stern_tunnel_height * t**2, t = (stern_rake_len - x) / stern_rake_len
KeelZ(x) ==
    IF x < config.stern_rake_len
    THEN (config.stern_tunnel_height
            * (config.stern_rake_len - x) * (config.stern_rake_len - x))
            \div (config.stern_rake_len * config.stern_rake_len)
    ELSE 0

\* deck_z = H, raised by the sheer within 10 m of the stern and beyond 120 m
DeckZ(x) ==
    config.depth
    + (IF x < 1000 THEN (50 * (1000 - x) * (1000 - x)) \div 1000000 ELSE 0)
    + (IF x > 12000 THEN (100 * (x - 12000) * (x - 12000)) \div 2250000 ELSE 0)

\* curr_r = min(R, curr_half_b * 0.9)
CurrR(x) ==
    LET lim == (9 * CurrHalfB(x)) \div 10
    IN  IF config.bilge_radius <= lim THEN config.bilge_radius ELSE lim

\* Mutant of ProfilePoint: the deck arc left out, the side running up to t = 1
ProfilePointOpenDeck(x, i, n) ==
    LET d  == n - 1
        hb == CurrHalfB(x)
        r  == CurrR(x)
        kz == KeelZ(x)
    IN  IF 10 * i < 3 * d
        THEN <<((hb - r) * 10 * i) \div (3 * d), kz>>
        ELSE <<hb, (kz + r) + ((DeckZ(x) - (kz + r)) * (10 * i - 3 * d)) \div (7 * d)>>

\* Point i of n of the section, t = i / (n - 1): bottom (t < 0.3), bilge
\* (t < 0.5), side (t < 0.7), deck.  In the bilge, cos(ang) and 1 + sin(ang)
\* for ang = -pi/2 + lt*pi/2 are replaced by the parabolas 2*lt - lt^2 and
\* lt^2 (same end values, same monotonicity).
ProfilePoint(x, i, n) ==
    LET d  == n - 1
        hb == CurrHalfB(x)
        r  == CurrR(x)
        kz == KeelZ(x)
        dz == DeckZ(x)
    IN  IF 10 * i < 3 * d
        THEN <<((hb - r) * 10 * i) \div (3 * d), kz>>
        ELSE IF 2 * i < d
        THEN LET p == 10 * i - 3 * d
                 q == 2 * d
             IN  <<(hb - r) + (r * (2 * p * q - p * p)) \div (q * q),
                   kz + (r * p * p) \div (q * q)>>
        ELSE IF 10 * i < 7 * d
        THEN <<hb, (kz + r) + ((dz - (kz + r)) * (10 * i - 5 * d)) \div (2 * d)>>
        ELSE <<hb + ((0 - hb) * (10 * i - 7 * d)) \div (3 * d), dz>>

\* What get_section_profile(x, v_count) raises, or "none": beyond the
\* midbody a zero bow_rake_len divides by zero, and a negative one makes
\* t**1.5 complex, which min(R, curr_half_b * 0.9) cannot order
ProfileError(x) ==
    IF x > config.parallel_midbody_end /\ ~(x < config.parallel_midbody_start)
    THEN IF config.bow_rake_len = 0 THEN "ZeroDivisionError"
         ELSE IF config.bow_rake_len < 0 THEN "TypeError"
         ELSE "none"
    ELSE "none"

\* section_pts = get_section_profile(x, v_count)
GetSectionProfile ==
    /\ npc = "station" /\ u_idx < u_count
    /\ ProfileError(RealXCoord(u_idx)) = "none"
    /\ LET x == RealXCoord(u_idx)
       IN  section' = [x |-> x, width_fac |-> WidthFac(x),
                       curr_half_b |-> CurrHalfB(x), keel_z |-> KeelZ(x),
                       deck_z |-> DeckZ(x), curr_r |-> CurrR(x),
                       pts |-> [k \in 1..v_count |-> ProfilePoint(x, k - 1, v_count)]]
    /\ npc' = "assign"
    /\ UNCHANGED <<config, u_count, v_count, u_idx, points, raised, nonNurbsVars>>

\* get_section_profile raises: create_nurbs_barge ends there
RaiseInProfile ==
    /\ npc = "station" /\ u_idx < u_count
    /\ ProfileError(RealXCoord(u_idx)) # "none"
    /\ raised' = ProfileError(RealXCoord(u_idx))
    /\ npc' = "raised"
    /\ UNCHANGED <<config, u_count, v_count, u_idx, section, points, nonNurbsVars>>

\* for v_idx in range(v_count): spline.points[idx].co = (x, y, z, 1.0)
AssignStation ==
    /\ npc = "assign"
    /\ points' = points \o [k \in 1..v_count |->
                     <<section.x, IF k <= Len(section.pts) THEN section.pts[k][1] ELSE 0,
                       IF k <= Len(section.pts) THEN section.pts[k][2] ELSE 0>>]
    /\ u_idx' = u_idx + 1
    /\ npc' = "station"
    /\ UNCHANGED <<config, u_count, v_count, section, raised, nonNurbsVars>>

\* The mirror modifier is added and the surface returned
ReturnSurface ==
    /\ npc = "station" /\ u_idx = u_count
    /\ npc' = "done"
    /\ UNCHANGED <<config, u_count, v_count, u_idx, section, points, raised,
                   nonNurbsVars>>

\* The parameter sets the model runs: the defaults and their variations
Configs ==
    {[DefaultConfig EXCEPT !.length = l, !.beam = b, !.bilge_radius = r,
                           !.parallel_midbody_start = s, !.bow_rake_len = bw] :
        l \in {13500, 15000}, b \in {1420, -1420}, r \in {120, 500},
        s \in {2000, 12000}, bw \in {2000, 1000, 0, -2000}}

InitNurbs ==
    /\ config \in Configs
    /\ u_count \in 2..MaxPointsU
    /\ v_count \in 2..MaxPointsV
    /\ u_idx = 0 /\ section = NoSection /\ points = <<>>
    /\ raised = "none" /\ npc = "station"
    /\ MeshIdle
    /\ DraftIdle
    /\ VerifyIdle
    /\ HullCheckIdle
    /\ PairIdle
    /\ BalanceIdle
    /\ RunnerIdle

NextNurbs ==
    \/ GetSectionProfile
    \/ RaiseInProfile
    \/ AssignStation
    \/ ReturnSurface

SpecNurbs == InitNurbs /\ [][NextNurbs]_vars

----------------------------------------------------------------------------
(* calculate_draft called on one hull for one target mass after another *)

\* calculate_draft(hull_file, m, rho): the whole call; the mass and the
\* result of the call before are kept for comparison
CalculateDraft ==
    /\ dpc \in {"call", "done"} /\ calls < 2
    /\ UNCHANGED <<z_min, z_max, areas, rho>>
    /\ target_mass' \in -1..MaxMass
    /\ volumes' = FinalVolumes
    /\ iv' = NLevels
    /\ idx' = SearchSorted'
    /\ ret' = ReturnValue'
    /\ dpc' = "done"
    /\ prev' = [mass |-> target_mass, ret |-> ret]
    /\ calls' = calls + 1
    /\ UNCHANGED nonPairVars

InitDraftPair ==
    /\ \E n \in 2..MaxSamples :
          /\ areas \in [1..n -> AreaValues]
          /\ z_min \in {-1, 0}
          /\ \E h \in {1, 2} : z_max = z_min + (n - 1) * h
          /\ volumes = [k \in 1..n |-> 0]
    /\ target_mass = 0
    /\ rho \in {1, 3}
    /\ iv = 1 /\ idx = 0 /\ ret = NoValue /\ dpc = "call"
    /\ MeshIdle
    /\ VerifyIdle
    /\ HullCheckIdle
    /\ NurbsIdle
    /\ PairIdle
    /\ BalanceIdle
    /\ RunnerIdle

NextDraftPair == CalculateDraft

SpecDraftPair == InitDraftPair /\ [][NextDraftPair]_vars

----------------------------------------------------------------------------
(* scripts/verify_hydrostatics.py: the force-balance check.  Tolerances in  *)
(* percent; volumes, areas and masses in model units.                       *)

DefaultTolerance == 10      \* --tolerance default 0.10

\* Mutant of Imbalance: the weight minus the buoyancy
ImbalanceOfWeight(displacement, m) == m - displacement

\* imbalance = displacement - mass
Imbalance(displacement, m) == displacement - m

\* relative_error > tolerance, relative_error = abs(imbalance) / mass with
\* numpy's division: inf (or nan) for mass 0, negative for a negative mass
ErrorExceeds(imbalance, m, tol) ==
    IF m > 0 THEN 100 * Abs(imbalance) > tol * m
    ELSE IF m = 0 THEN imbalance # 0
    ELSE FALSE

\* sys.exit(c), or the command returning (status 0)
BalanceExit(c) == bexit' = <<c>> /\ bpc' = "exited"

\* pv.read raises: "Error reading mesh", sys.exit(1)
ReadMeshFailed ==
    /\ bpc = "read"
    /\ BalanceExit(1)
    /\ UNCHANGED <<opt, slice_areas, gauss, verdict, advice, nonBalanceVars>>

\* mesh = pv.read(stl_path)
ReadMesh ==
    /\ bpc = "read"
    /\ bpc' = "slices"
    /\ UNCHANGED <<opt, slice_areas, gauss, verdict, advice, bexit, nonBalanceVars>>

\* for z in z_levels: slc = mesh.slice(...); pass  -- nothing is appended to
\* areas and no volume is integrated from the slices
SliceLoop ==
    /\ bpc = "slices"
    /\ slice_areas' = slice_areas
    /\ bpc' = "clip"
    /\ UNCHANGED <<opt, gauss, verdict, advice, bexit, nonBalanceVars>>

\* if underwater.n_points == 0: "Clipped mesh is empty", sys.exit(1)
ClipEmpty ==
    /\ bpc = "clip"
    /\ BalanceExit(1)
    /\ UNCHANGED <<opt, slice_areas, gauss, verdict, advice, nonBalanceVars>>

\* except Exception: the error is printed and the command returns
ExceptionCaught ==
    /\ bpc = "clip"
    /\ BalanceExit(0)
    /\ UNCHANGED <<opt, slice_areas, gauss, verdict, advice, nonBalanceVars>>

\* vol_hull_surf = sum(Nz * z_centers * cell_areas), wl_area of the slice at
\* the draft, volume = abs(vol_hull_surf + draft * wl_area)
GaussIntegral ==
    /\ bpc = "clip"
    /\ \E vhs \in (0 - MaxMass)..MaxMass, wl \in AreaValues :
          gauss' = [done |-> TRUE, vol_hull_surf |-> vhs, wl_area |-> wl,
                    volume |-> Abs(vhs + opt.draft * wl)]
    /\ bpc' = "balance"
    /\ UNCHANGED <<opt, slice_areas, verdict, advice, bexit, nonBalanceVars>>

\* displacement, imbalance, relative_error; FAIL with its advice, or PASS;
\* the command returns (the sys.exit(1) of the FAIL branch is commented out)
Balance ==
    /\ bpc = "balance"
    /\ LET displacement == gauss.volume * opt.water_density
           imbalance == Imbalance(displacement, opt.mass)
       IN  IF ErrorExceeds(imbalance, opt.mass, opt.tolerance)
           THEN /\ verdict' = "FAIL"
                /\ advice' = IF imbalance > 0 THEN "LIGHT" ELSE "HEAVY"
           ELSE /\ verdict' = "PASS"
                /\ advice' = "none"
    /\ BalanceExit(0)
    /\ UNCHANGED <<opt, slice_areas, gauss, nonBalanceVars>>

InitBalance ==
    /\ opt \in [mass : -1..MaxMass, draft : {0, 1, 2}, water_density : {1, 3},
                tolerance : {DefaultTolerance, 5}]
    /\ slice_areas = <<>> /\ gauss = NoGauss
    /\ verdict = "none" /\ advice = "none" /\ bexit = <<>> /\ bpc = "read"
    /\ MeshIdle
    /\ DraftIdle
    /\ VerifyIdle
    /\ HullCheckIdle
    /\ NurbsIdle
    /\ PairIdle
    /\ RunnerIdle

NextBalance ==
    \/ ReadMeshFailed
    \/ ReadMesh
    \/ SliceLoop
    \/ ClipEmpty
    \/ ExceptionCaught
    \/ GaussIntegral
    \/ Balance

SpecBalance == InitBalance /\ [][NextBalance]_vars

----------------------------------------------------------------------------
(* src/openfoam_runner: main of cli.py and the tasks of tasks.py.  Names    *)
(* are sequences of characters; a file's content is a number.              *)

MaxHulls == 2

\* The six tasks of one hull, in the order main chains them
Stages == <<"setup", "meshing", "setFields", "solver", "post", "extract">>

Digits == <<"0", "1", "2", "3", "4", "5", "6", "7", "8", "9">>

\* str(i) of an f-string, for i >= 0
RECURSIVE Str(_)
Str(i) ==
    IF i < 10 THEN <<Digits[i + 1]>>
    ELSE Str(i \div 10) \o <<Digits[(i % 10) + 1]>>

\* Mutant of CaseDir: the name without the argument position
CaseDirOfStem(stem, i) == <<"c", "a", "s", "e", "_">> \o stem

\* f"case_{hull_stl.stem}_{i}" (under out_dir)
CaseDir(stem, i) == <<"c", "a", "s", "e", "_">> \o stem \o <<"_">> \o Str(i)

\* Mutant of Ready: a task may start whatever the task before it did
ReadyAlone(st, k) == st[k] = "pending"

\* Task k of a hull may start: it has not started and the task before it has
\* returned (its argument in the delayed chain; the statement before it in
\* the sequential branch)
Ready(st, k) ==
    st[k] = "pending" /\ (IF k = 1 THEN TRUE ELSE st[k - 1] = "done")

\* Mutant of CopyHull: the directories are made, the file is not copied
MakeDirsOnly(files, dir, data) ==
    IF \E f \in files : f[1] = dir THEN files ELSE files \cup {<<dir, 0>>}

\* case_dir and constant/triSurface are made, the template is copied and
\* cp {hull_stl} {case_dir}/constant/triSurface/hull.stl overwrites the file
CopyHull(files, dir, data) ==
    {f \in files : f[1] # dir} \cup {<<dir, data>>}

\* case_dir.mkdir(parents=True, exist_ok=True), before anything can raise
MakeCaseDir(files, dir) ==
    IF \E f \in files : f[1] = dir THEN files ELSE files \cup {<<dir, 0>>}

\* The hulls whose tasks may be started now
Runnable ==
    IF parallel THEN IF rpc = "compute" THEN 1..Len(case_dirs) ELSE {}
    ELSE IF rpc = "pipeline" THEN {ri + 1} ELSE {}

\* if not hull_stls: "No hull files provided.", return
NoHulls ==
    /\ rpc = "start" /\ hull_stls = <<>>
    /\ rpc' = "returned"
    /\ UNCHANGED <<hull_stls, parallel, case_dirs, stage, fs, ri, nonRunnerVars>>

\* out_dir.mkdir; the cluster and client if parallel; tasks = []
Begin ==
    /\ rpc = "start" /\ hull_stls # <<>>
    /\ rpc' = "loop"
    /\ UNCHANGED <<hull_stls, parallel, case_dirs, stage, fs, ri, nonRunnerVars>>

\* One iteration with parallel: case_dir and the delayed chain of six tasks
LoopDelayed ==
    /\ rpc = "loop" /\ parallel /\ ri < Len(hull_stls)
    /\ case_dirs' = Append(case_dirs, CaseDir(hull_stls[ri + 1].stem, ri))
    /\ ri' = ri + 1
    /\ UNCHANGED <<hull_stls, parallel, stage, fs, rpc, nonRunnerVars>>

\* One iteration without parallel begins: case_dir, then the six calls
LoopSequential ==
    /\ rpc = "loop" /\ ~parallel /\ ri < Len(hull_stls)
    /\ case_dirs' = Append(case_dirs, CaseDir(hull_stls[ri + 1].stem, ri))
    /\ rpc' = "pipeline"
    /\ UNCHANGED <<hull_stls, parallel, stage, fs, ri, nonRunnerVars>>

\* The loop is over: dask.compute(*tasks) if parallel, else main returns
LoopEnd ==
    /\ rpc = "loop" /\ ri = Len(hull_stls)
    /\ rpc' = IF parallel THEN "compute" ELSE "returned"
    /\ UNCHANGED <<hull_stls, parallel, case_dirs, stage, fs, ri, nonRunnerVars>>

\* A task of hull h is entered; setup_case_task makes case_dir at once
StartStage(h) ==
    /\ h \in Runnable
    /\ \E k \in 1..Len(Stages) :
          /\ Ready(stage[h], k)
          /\ stage' = [stage EXCEPT ![h][k] = "running"]
          /\ fs' = IF k = 1 THEN MakeCaseDir(fs, case_dirs[h]) ELSE fs
    /\ UNCHANGED <<hull_stls, parallel, case_dirs, ri, rpc, nonRunnerVars>>

\* The running task of hull h returns case_dir (or the parameters); after
\* extract_parameters_task the sequential loop moves to the next hull
ReturnStage(h) ==
    /\ h \in Runnable
    /\ \E k \in 1..Len(Stages) :
          /\ stage[h][k] = "running"
          /\ stage' = [stage EXCEPT ![h][k] = "done"]
          /\ fs' = IF k = 1
                   THEN CopyHull(fs, case_dirs[h], hull_stls[h].data)
                   ELSE fs
          /\ IF ~parallel /\ k = Len(Stages)
             THEN ri' = ri + 1 /\ rpc' = "loop"
             ELSE UNCHANGED <<ri, rpc>>
    /\ UNCHANGED <<hull_stls, parallel, case_dirs, nonRunnerVars>>

\* The running task of hull h raises (template or tool not found, a command
\* fails); without parallel the exception leaves main.
\* extract_parameters_task has nothing that raises.
RaiseStage(h) ==
    /\ h \in Runnable
    /\ \E k \in 1..(Len(Stages) - 1) :
          /\ stage[h][k] = "running"
          /\ stage' = [stage EXCEPT ![h][k] = "failed"]
    /\ rpc' = IF parallel THEN rpc ELSE "raised"
    /\ UNCHANGED <<hull_stls, parallel, case_dirs, fs, ri, nonRunnerVars>>

\* dask.compute raises the exception of a failed task
ComputeRaises ==
    /\ rpc = "compute"
    /\ \E h \in 1..Len(stage) : \E k \in 1..Len(Stages) : stage[h][k] = "failed"
    /\ rpc' = "raised"
    /\ UNCHANGED <<hull_stls, parallel, case_dirs, stage, fs, ri, nonRunnerVars>>

\* dask.compute returns the results; they are logged and main returns
ComputeReturns ==
    /\ rpc = "compute"
    /\ \A h \in 1..Len(stage) : stage[h][Len(Stages)] = "done"
    /\ rpc' = "returned"
    /\ UNCHANGED <<hull_stls, parallel, case_dirs, stage, fs, ri, nonRunnerVars>>

\* The existing hull files the command line may name
HullFiles == [stem : {<<"a">>, <<"a", "_", "1">>}, data : {1, 2}]

RECURSIVE SeqsUpTo(_, _)
SeqsUpTo(S, n) ==
    IF n = 0 THEN {<<>>}
    ELSE LET shorter == SeqsUpTo(S, n - 1)
         IN  shorter \cup {Append(q, x) : q \in shorter, x \in S}

InitRunner ==
    /\ hull_stls \in SeqsUpTo(HullFiles, MaxHulls)
    /\ parallel \in BOOLEAN
    /\ case_dirs = <<>>
    /\ stage = [h \in 1..Len(hull_stls) |-> [k \in 1..Len(Stages) |-> "pending"]]
    /\ fs = {} /\ ri = 0 /\ rpc = "start"
    /\ MeshIdle
    /\ DraftIdle
    /\ VerifyIdle
    /\ HullCheckIdle
    /\ NurbsIdle
    /\ PairIdle
    /\ BalanceIdle

NextRunner ==
    \/ NoHulls
    \/ Begin
    \/ LoopDelayed
    \/ LoopSequential
    \/ LoopEnd
    \/ \E h \in 1..MaxHulls + 1 : StartStage(h)
    \/ \E h \in 1..MaxHulls + 1 : ReturnStage(h)
    \/ \E h \in 1..MaxHulls + 1 : RaiseStage(h)
    \/ ComputeRaises
    \/ ComputeReturns

SpecRunner == InitRunner /\ [][NextRunner]_vars

----------------------------------------------------------------------------
(* Properties of the mesh generators *)

\* grid_to_mesh has returned (the caller has not yet added anything)
MeshReturned == pc = "return"

\* C1: the mesh grid_to_mesh returns for a barge grid is closed: with
\* coincident vertices identified, every edge is incident to exactly two
\* triangles (no boundary edge).
C1_Closed ==
    (MeshReturned /\ hull = "barge") =>
        \A e \in DirectedEdges : UndirCount(e[1], e[2]) = 2

\* C2: the triangle list of grid_to_mesh is consistently wound: with
\* coincident vertices identified, every directed edge is traversed by
\* exactly one triangle, also where the shells meet the transom cap.
C2_ConsistentWinding ==
    MeshReturned =>
        \A e \in DirectedEdges : DirCount(e[1], e[2]) = 1

\* Station interval (Python index) of shell face f: two faces per quad,
\* ny quads per station interval, the port shell in the same order
StationOf(f) == (((f - 1) % NShell) \div 2) \div Ny

\* The hull section does not change over the station interval of face f
Prismatic(f) ==
    LET i == StationOf(f)
    IN  \A j \in 0..Ny : /\ grid[i][j][2] = grid[i + 1][j][2]
                         /\ grid[i][j][3] = grid[i + 1][j][3]

\* Outward direction of a shell face of a section that runs from the keel
\* out to the bilge and up the side: away from the centreplane, never up.
StbdOutward(f) == Normal(f)[2] >= 0 /\ Normal(f)[3] <= 0
PortOutward(f) == Normal(f)[2] <= 0 /\ Normal(f)[3] <= 0

\* C3: every non-degenerate triangle has its right-hand-rule normal pointing
\* out of the hull: starboard shell away from the interior, port shell
\* likewise after mirroring (read off where the section is constant, so that
\* the normal has no x component), transom cap to -x, bow cap to +x.
C3_OutwardNormals ==
    MeshDone =>
        /\ \A f \in StbdShellFaces :
              (hull = "barge" /\ Prismatic(f) /\ NonDegenerate(f)) => StbdOutward(f)
        /\ \A f \in PortShellFaces :
              (hull = "barge" /\ Prismatic(f) /\ NonDegenerate(f)) => PortOutward(f)
        /\ \A f \in TransomCapFaces : NonDegenerate(f) => Normal(f)[1] < 0
        /\ \A f \in BowCapFaces : NonDegenerate(f) => Normal(f)[1] > 0

\* C4: after mirroring no two distinct vertex indices carry the same
\* coordinates: a centreline point is one vertex shared by both half-shells.
C4_MergedCenterline ==
    MeshReturned =>
        \A k, l \in 0..(Len(verts) - 1) : Coord(k) = Coord(l) => k = l

\* Some face lies wholly on station st, between girth points j and j+1,
\* and joins the starboard side to the port side
CapAt(st, j) ==
    LET s0 == node_map[<<st, j>>]
        s1 == node_map[<<st, j + 1>>]
        corners == {s0, s1, s0 + n_stbd, s1 + n_stbd}
    IN  \E f \in FaceIds :
           /\ {faces[f][1], faces[f][2], faces[f][3]} \subseteq corners
           /\ \E c \in 1..3 : faces[f][c] < n_stbd
           /\ \E c \in 1..3 : faces[f][c] >= n_stbd

\* C5: both hull generators return cap triangles at the stern station
\* (i = 0) and at the bow station (i = nx), for every girth interval.
C5_BothEndsCapped ==
    MeshDone =>
        \A st \in {0, Nx} : \A j \in 0..(Ny - 1) : CapAt(st, j)

----------------------------------------------------------------------------
(* Properties of calculate_draft *)

DraftDone == dpc = "done"

\* volumes[i], i a Python index
Vol(i) == volumes[i + 1]

LastLevel == NLevels - 1

\* C6: the cumulative volumes are non-decreasing in the level: volumes[0] = 0
\* and volumes[i-1] <= volumes[i] for every level integrated so far.
C6_VolumesMonotone ==
    dpc # "idle" =>
        /\ Vol(0) = 0
        /\ \A i \in 1..LastLevel : i < iv => Vol(i - 1) <= Vol(i)

\* The integration ran over rising stretches and over a plateau
C6_Witness ==
    /\ DraftDone /\ NLevels = MaxSamples
    /\ \E i \in 1..LastLevel : Vol(i - 1) < Vol(i)
    /\ \E i \in 1..LastLevel : Vol(i - 1) = Vol(i)
    /\ \E i \in 1..LastLevel : areas[i + 1] < areas[i]

\* volumes[0] < target_volume <= volumes[last]
TargetBracketed ==
    /\ Vol(0) * rho < target_mass
    /\ target_mass <= Vol(LastLevel) * rho

\* C7: for volumes[0] < T <= volumes[last] the solve brackets T by the
\* adjacent samples (idx-1, idx), idx the smallest index with
\* volumes[idx] >= T, returns the point d of the bracket with
\* (d - z_low)/(z_high - z_low) = (T - v_low)/(v_high - v_low), and
\* z_low < d <= z_high.
C7_Bracket ==
    (DraftDone /\ TargetBracketed) =>
        /\ idx \in 1..LastLevel
        /\ Vol(idx) * rho >= target_mass
        /\ \A k \in 0..(idx - 1) : Vol(k) * rho < target_mass
        /\ ret.kind = "number"
        /\ (ret.num - ZSweep(idx - 1) * ret.den) * (Vol(idx) - Vol(idx - 1)) * rho
             = (target_mass - Vol(idx - 1) * rho)
                  * (ZSweep(idx) - ZSweep(idx - 1)) * ret.den
        /\ ZSweep(idx - 1) * ret.den < ret.num
        /\ ret.num <= ZSweep(idx) * ret.den

\* A draft strictly inside a bracket above the first, and one on a sample
C7_Witness ==
    /\ DraftDone /\ TargetBracketed
    /\ idx >= 2
    /\ ret.kind = "number"
    /\ ZSweep(idx - 1) * ret.den < ret.num
    /\ ret.num < ZSweep(idx) * ret.den
    /\ \E k \in 1..LastLevel : Vol(k - 1) = Vol(k)

\* min(volumes) < target_volume < max(volumes)
TargetStrictlyInside ==
    /\ Vol(0) * rho < target_mass
    /\ target_mass < Vol(LastLevel) * rho

\* The sweep interval that holds the draft num/den
SegmentOf(num, den) ==
    LET below == {k \in 0..(LastLevel - 1) : ZSweep(k) * den <= num}
    IN  IF below = {} THEN 0 ELSE CHOOSE k \in below : \A m \in below : m <= k

\* Slice-integrated volume up to the draft num/den of a hull whose waterplane
\* area varies linearly between the sweep levels (for such a hull the
\* trapezoidal rule is exact), as the fraction [num, den]
VolumeAt(num, den) ==
    LET k   == SegmentOf(num, den)
        dzk == ZSweep(k + 1) - ZSweep(k)
        e   == num - ZSweep(k) * den            \* (d - z_k) * den
        da  == areas[k + 2] - areas[k + 1]
    IN  [num |-> Vol(k) * 2 * den * den * dzk
                   + (2 * areas[k + 1] * den * dzk + e * da) * e,
         den |-> 2 * den * den * dzk]

\* The piecewise-linear interpolant of the sampled points
\* (z_sweep[i], volumes[i]) at the draft num/den, as the fraction [num, den]
VolumeLinear(num, den) ==
    LET k   == SegmentOf(num, den)
        dzk == ZSweep(k + 1) - ZSweep(k)
    IN  [num |-> Vol(k) * den * dzk
                   + (num - ZSweep(k) * den) * (Vol(k + 1) - Vol(k)),
         den |-> den * dzk]

\* |v * rho - target_mass| / target_mass < 1e-3 for the volume v = [num, den]
WithinTolerance(v) ==
    1000 * Abs(v.num * rho - target_mass * v.den) < target_mass * v.den

\* C8 as stated: for a target strictly inside the sampled range the returned
\* draft d has |volume(d)*rho - targetMass| / targetMass < 1e-3, volume(d)
\* the slice-integrated volume up to d.
C8_InverseConsistency ==
    (DraftDone /\ TargetStrictlyInside) =>
        /\ ret.kind = "number"
        /\ WithinTolerance(VolumeAt(ret.num, ret.den))

\* C8 amended: the same bound holds with volume(d) taken as the linear
\* interpolation of the sampled cumulative volumes at d (there it is exact).
C8_LinearInverse ==
    (DraftDone /\ TargetStrictlyInside) =>
        /\ ret.kind = "number"
        /\ WithinTolerance(VolumeLinear(ret.num, ret.den))

\* A draft strictly between two samples, where the area changes
C8_Witness ==
    /\ DraftDone /\ TargetStrictlyInside
    /\ ret.kind = "number"
    /\ ZSweep(idx - 1) * ret.den < ret.num
    /\ ret.num < ZSweep(idx) * ret.den
    /\ areas[idx] # areas[idx + 1]
    /\ WithinTolerance(VolumeLinear(ret.num, ret.den))

\* C9: a target mass above totalVolume*rho gives an OVERLOADED status the
\* caller can tell from a numeric draft, never a draft above the deck.
C9_OverloadedStatus ==
    (DraftDone /\ target_mass > Vol(LastLevel) * rho) =>
        /\ ret.kind = "OVERLOADED"
        /\ ~(ret.kind = "number" /\ ret.num > z_max * ret.den)

\* C10: targetMass = 0 returns the hull's lowest point z_min, whatever the
\* areas.
C10_ZeroMass ==
    (DraftDone /\ target_mass = 0) =>
        /\ idx = 0
        /\ ret = Number(z_min, 1)

\* Zero mass on a hull with some volume, lowest point below the origin
C10_Witness ==
    /\ DraftDone /\ target_mass = 0
    /\ Vol(LastLevel) > 0
    /\ z_min = -1
    /\ ret = Number(z_min, 1)

----------------------------------------------------------------------------
(* Properties of verify_hydrostatics.py (analysis) *)

\* main reached the comparison and has exited from it
Compared == vpc = "exited" /\ z_calc.kind = "number"

\* (z_set - (z_calc + offset)) * den, den the denominator of z_calc
DeltaTimesDen == z_set[1] * z_calc.den - z_calc.num - offset * z_calc.den

\* |z_set - (z_calc + offset)| > 0.05 m
OutOfTolerance ==
    \/ DeltaTimesDen > Tolerance * z_calc.den
    \/ -DeltaTimesDen > Tolerance * z_calc.den

\* C11: once main has compared the configured level with the computed one,
\* its exit status is 1 exactly when |z_configured - (z_computed + offset)|
\* exceeds 0.05 m and 0 otherwise; without a second argument the offset is
\* 0.10 m.
C11_ExitStatus ==
    /\ Compared => (exit_code = <<1>> <=> OutOfTolerance)
    /\ Compared => (exit_code = <<0>> <=> ~OutOfTolerance)
    /\ (argc = 2 /\ vpc \notin {"args", "idle"}) => offset = DefaultOffset

\* A failure under the default offset, on an interpolated (fractional) draft
\* that is less than one centimetre beyond the tolerance
C11_Witness ==
    /\ Compared /\ argc = 2 /\ exit_code = <<1>>
    /\ z_calc.den > 1 /\ z_calc.num % z_calc.den # 0
    /\ -DeltaTimesDen > Tolerance * z_calc.den
    /\ -DeltaTimesDen < (Tolerance + 1) * z_calc.den

\* The displacement of the whole hull is below the configured mass
Overloaded == target_mass > volumes[Len(volumes)] * rho

\* C12: a tolerance violation does not end the run with a failure exit, and
\* a draft clamped to z_max for an overloaded hull is never compared with the
\* configured level as if it were an equilibrium draft.
C12_ReportedNotAborted ==
    /\ (Compared /\ OutOfTolerance) => exit_code # <<1>>
    /\ (vpc = "compare" \/ Compared) => ~Overloaded

----------------------------------------------------------------------------
(* Properties of verify_hull.py *)

HullCheckEnded == hpc = "exited"

\* C13: a run of verify_hull on a mesh that is not watertight or not
\* consistently wound ends with a failure exit status.
C13_IntegrityFailureExits ==
    (HullCheckEnded /\ mesh.loaded
        /\ ~(mesh.is_watertight /\ mesh.is_winding_consistent))
    => hexit # <<0>>

\* The report file holds the two integrity flags
FlagsWritten == output # <<>> /\ output[1].checks # <<>>

\* C14: in every report written, status APPROVED comes only with both the
\* watertight and the winding_consistent flag true, and a false flag comes
\* with status REJECTED.
C14_ApprovedOnlyIfSound ==
    FlagsWritten =>
        /\ output[1].status = "APPROVED" =>
              (output[1].checks.watertight /\ output[1].checks.winding_consistent)
        /\ ~(output[1].checks.watertight /\ output[1].checks.winding_consistent)
              => output[1].status = "REJECTED"

----------------------------------------------------------------------------
(* Properties of blender_nurbs_barge.py *)

\* The constraints of the data model on a parameter set
ValidConfig ==
    /\ config.length > 0 /\ config.beam > 0 /\ config.depth > 0
    /\ 0 <= config.bilge_radius /\ 2 * config.bilge_radius <= config.beam
    /\ 0 < config.parallel_midbody_start
    /\ config.parallel_midbody_start < config.parallel_midbody_end
    /\ config.parallel_midbody_end < config.length
    /\ config.bow_rake_len > 0 /\ config.stern_rake_len > 0
    /\ config.stern_tunnel_height >= 0

\* get_section_profile has just returned the section of station u_idx
ProfileReturned == npc = "assign"

\* C15: a parameter set that violates the data model is rejected with a
\* parameter error before any point is produced, and a valid set never makes
\* the profile generation fail.
C15_InvalidRejected ==
    /\ (npc # "idle" /\ ~ValidConfig) =>
          /\ section = NoSection /\ points = <<>>
          /\ npc \in {"raised", "done"} => raised = "ParameterError"
    /\ ValidConfig => raised = "none"

C17_WidthFactorRange ==
    (ProfileReturned /\ ValidConfig) =>
        /\ 0 < section.width_fac /\ section.width_fac <= 1000
        /\ (config.parallel_midbody_start <= section.x
              /\ section.x <= config.parallel_midbody_end)
             => section.width_fac = 1000
        /\ \A k \in 1..Len(section.pts) : section.pts[k][1] >= 0


\* C18: the width factor does not decrease from station to station up to
\* the start of the parallel midbody, is 1 on it, and does not increase from
\* station to station beyond its end; both taper formulas give exactly 1 at
\* the boundary of the midbody.  The same holds of the breadth factor of the
\* tanker.
C18_WidthFactorMonotone ==
    (ProfileReturned /\ ValidConfig) =>
        /\ \A k \in 0..(u_idx - 1) :
              /\ section.x <= config.parallel_midbody_start
                    => WidthFac(RealXCoord(k)) <= section.width_fac
              /\ RealXCoord(k) >= config.parallel_midbody_end
                    => WidthFac(RealXCoord(k)) >= section.width_fac
        /\ (config.parallel_midbody_start <= section.x
              /\ section.x <= config.parallel_midbody_end)
             => section.width_fac = 1000
        /\ SternTaper(config.parallel_midbody_start) = 1000
        /\ BowTaper(config.parallel_midbody_end) = 1000
        /\ \A i \in 0..19 :
              LET a == TankerX(i, 20)
                  b == TankerX(i + 1, 20)
              IN  /\ 5 * b <= TankerL => TankerBx(a) <= TankerBx(b)
                  /\ 5 * a >= 4 * TankerL => TankerBx(a) >= TankerBx(b)
                  /\ (5 * a >= TankerL /\ 5 * a <= 4 * TankerL)
                        => TankerBx(a) = 1000

\* A bow station narrower than the midbody, after stern stations that widen
C18_Witness ==
    /\ ProfileReturned /\ ValidConfig
    /\ section.x > config.parallel_midbody_end /\ section.width_fac < 1000
    /\ \E j \in 0..(u_idx - 1), k \in 0..(u_idx - 1) :
          /\ RealXCoord(j) < RealXCoord(k)
          /\ RealXCoord(k) < config.parallel_midbody_start
          /\ WidthFac(RealXCoord(j)) < WidthFac(RealXCoord(k))
    /\ \E k \in 0..(u_idx - 1) :
          /\ RealXCoord(k) > config.parallel_midbody_end
          /\ WidthFac(RealXCoord(k)) > section.width_fac

\* C19: for a valid parameter set the keel rise is never negative, is 0 from
\* the end of the stern rake on, is stern_tunnel_height at x = 0 and does not
\* increase from station to station.
C19_KeelRise ==
    (ProfileReturned /\ ValidConfig) =>
        /\ section.keel_z >= 0
        /\ section.x >= config.stern_rake_len => section.keel_z = 0
        /\ section.x = 0 => section.keel_z = config.stern_tunnel_height
        /\ \A k \in 0..(u_idx - 1) : KeelZ(RealXCoord(k)) >= section.keel_z

\* A station inside the stern rake, lower than the stern and above the flat
C19_Witness ==
    /\ ProfileReturned /\ ValidConfig /\ u_idx > 0
    /\ 0 < section.x /\ section.x < config.stern_rake_len
    /\ 0 < section.keel_z
    /\ section.keel_z < KeelZ(RealXCoord(0))
    /\ KeelZ(RealXCoord(0)) = config.stern_tunnel_height

\* Smaller of two numbers
Min(a, b) == IF a <= b THEN a ELSE b

\* C20: for a valid parameter set the bilge radius of a station is
\* min(bilge_radius, 0.9 * half-breadth), it is at most min(beam/2, depth),
\* and the end of the bilge arc is not above the deck edge; the bilge arc of
\* the barge generator does not end above its deck edge either.
C20_BilgeBelowDeck ==
    /\ (ProfileReturned /\ ValidConfig) =>
          /\ section.curr_r = Min(config.bilge_radius, (9 * section.curr_half_b) \div 10)
          /\ section.curr_r <= Min(config.beam \div 2, config.depth)
          /\ section.keel_z + section.curr_r <= section.deck_z
    /\ npc = "done" =>
          \A i \in 0..20 :
              BargeZBottom(BargeX(i, 20)) + BargeR(BargeX(i, 20)) <= BargeD

----------------------------------------------------------------------------
(* Further properties of the mesh generators *)

\* The corners of face f as coordinates
FaceCoords(f) == <<Coord(faces[f][1]), Coord(faces[f][2]), Coord(faces[f][3])>>

\* The reflection in the centre plane y = 0
ReflectY(v) == <<v[1], 0 - v[2], v[3]>>

\* The reflection of a triangle in the plane y = 0, winding reversed
Reflected(t) == <<ReflectY(t[1]), ReflectY(t[3]), ReflectY(t[2])>>

\* The same triangle with the same winding: equal up to rotation
SameTriangle(t, u) ==
    \/ u = t
    \/ u = <<t[2], t[3], t[1]>>
    \/ u = <<t[3], t[1], t[2]>>

HasCounterpart(f) ==
    \E g \in FaceIds : SameTriangle(Reflected(FaceCoords(f)), FaceCoords(g))

VertexSet == {verts[k] : k \in 1..Len(verts)}

VerticesSymmetric == \A v \in VertexSet : ReflectY(v) \in VertexSet

\* The four corners of the transom cap quad j
TransomQuad(j) ==
    {Coord(node_map[<<0, j>>]), Coord(node_map[<<0, j + 1>>]),
     Coord(node_map[<<0, j>>] + n_stbd), Coord(node_map[<<0, j + 1>>] + n_stbd)}

StationIndices(i) ==
    {i * (Ny + 1) + j : j \in 0..Ny}
        \cup {i * (Ny + 1) + j + (Nx + 1) * (Ny + 1) : j \in 0..Ny}

FaceIndices(f) == {faces[f][1], faces[f][2], faces[f][3]}

\* C30: grid_to_mesh gives starboard vertex (i, j) the index i*(ny+1)+j and
\* its port mirror that index plus (nx+1)*(ny+1); it returns 2*(nx+1)*(ny+1)
\* vertices and 4*nx*ny + 2*ny triangles whose indices are all valid; the
\* bow cap of the tanker adds 2*ny triangles on the indices of station nx.
C30_IndexLayout ==
    /\ (MeshReturned \/ MeshDone) =>
          /\ \A i \in 0..Nx, j \in 0..Ny :
                /\ node_map[<<i, j>>] = i * (Ny + 1) + j
                /\ Coord(i * (Ny + 1) + j) = grid[i][j]
                /\ Coord(i * (Ny + 1) + j + (Nx + 1) * (Ny + 1))
                       = ReflectY(grid[i][j])
          /\ n_stbd = (Nx + 1) * (Ny + 1)
          /\ Len(verts) = 2 * (Nx + 1) * (Ny + 1)
          /\ \A f \in FaceIds : FaceIndices(f) \subseteq 0..(Len(verts) - 1)
    /\ MeshReturned => Len(faces) = 4 * Nx * Ny + 2 * Ny
    /\ pc \in {"bowcap", "done"} =>
          \A f \in BowCapFaces : FaceIndices(f) \subseteq StationIndices(Nx)
    /\ (MeshDone /\ hull = "tanker") => Len(faces) = 4 * Nx * Ny + 4 * Ny

\* The tanker on the largest grid, bow cap complete
C30_Witness ==
    /\ MeshDone /\ hull = "tanker" /\ Nx = MaxNx /\ Ny = MaxNy
    /\ Len(faces) = 4 * Nx * Ny + 4 * Ny
    /\ BowCapFaces # {}

----------------------------------------------------------------------------
(* Further properties of calculate_draft *)

\* The interpolation branch is about to run, or has run
InterpolationReached ==
    dpc \in {"branch", "done"} /\ 0 < idx /\ idx < Len(volumes)

\* C27: whenever the interpolation branch is reached (0 < idx < number of
\* samples), volumes[idx] - volumes[idx-1] > 0, so the fraction has a
\* non-zero denominator and the result is a number.
C27_NoZeroDenominator ==
    /\ InterpolationReached => Vol(idx) - Vol(idx - 1) > 0
    /\ (DraftDone /\ InterpolationReached) => ret.kind = "number"

\* An interpolation on volumes with a plateau, the target on a sampled volume
C27_Witness ==
    /\ DraftDone /\ InterpolationReached
    /\ \E k \in 1..LastLevel : Vol(k - 1) = Vol(k) /\ Vol(k) * rho = target_mass
    /\ Vol(idx) * rho = target_mass
    /\ ret.kind = "number"

\* Both calls on the hull have returned
BothCalls == calls = 2 /\ dpc = "done"

\* a <= b for two returned numbers
NumberLeq(a, b) == a.num * b.den <= b.num * a.den

\* C28: the value calculate_draft returns lies in [z_min, z_max] for every
\* target mass, and of two calls on the same hull with the same rho the one
\* with the smaller target mass does not return the larger value.
C28_RangeAndMonotone ==
    /\ (dpc = "done" /\ calls > 0) =>
          /\ ret.kind = "number"
          /\ z_min * ret.den <= ret.num
          /\ ret.num <= z_max * ret.den
    /\ BothCalls =>
          /\ prev.mass <= target_mass => NumberLeq(prev.ret, ret)
          /\ prev.mass >= target_mass => NumberLeq(ret, prev.ret)

\* A negative or zero mass, then one in range with an interpolated draft
\* strictly above, on a hull where a third mass would exceed the capacity
C28_Witness ==
    /\ BothCalls
    /\ prev.mass <= 0 /\ prev.ret = Number(z_min, 1)
    /\ target_mass > 0 /\ ret.den > 1
    /\ ~NumberLeq(ret, prev.ret)
    /\ MaxMass > Vol(LastLevel) * rho

----------------------------------------------------------------------------
(* Further properties of blender_nurbs_barge.py *)

\* create_nurbs_barge has returned the shaped surface
SurfaceReturned == npc = "done"

\* The half-breadths (y) of all control points
HalfBreadths == {points[k][2] : k \in 1..Len(points)}

\* C23: for a valid BargeConfig the stations of create_nurbs_barge run from
\* x = 0 to x = config.length, and on the 10 x 10 grid the script creates
\* the largest half-breadth of all profiles is config.beam / 2.
C23_SpansLengthAndBeam ==
    (SurfaceReturned /\ ValidConfig) =>
        /\ RealXCoord(0) = 0
        /\ RealXCoord(u_count - 1) = config.length
        /\ \A k \in 1..Len(points) : 0 <= points[k][1] /\ points[k][1] <= config.length
        /\ \E k \in 1..Len(points) : points[k][1] = config.length
        /\ (u_count = Len(XTargets) /\ v_count = Len(XTargets)) =>
              /\ HalfB \in HalfBreadths
              /\ \A y \in HalfBreadths : y <= HalfB

----------------------------------------------------------------------------
(* Properties of scripts/verify_hydrostatics.py *)

\* The force balance was evaluated and the command has ended
Balanced == bpc = "exited" /\ gauss.done

\* displacedVolume * waterDensity
Displacement == gauss.volume * opt.water_density

\* |displacement - mass| / mass <= tolerance, for mass > 0
WithinBalance ==
    \/ 100 * (Displacement - opt.mass) <= opt.tolerance * opt.mass
          /\ Displacement >= opt.mass
    \/ 100 * (opt.mass - Displacement) <= opt.tolerance * opt.mass
          /\ Displacement < opt.mass

\* Twice the trapezoidal sum of the first k areas at unit spacing
RECURSIVE TwiceTrapezoid(_, _)
TwiceTrapezoid(a, k) ==
    IF k < 2 THEN 0 ELSE TwiceTrapezoid(a, k - 1) + a[k - 1] + a[k]

\* C22: a run of verify_hydrostatics computes both the slice-integration
\* volume and the divergence-theorem volume for its surface and draft, and
\* the two agree within 1%.
C22_VolumesCrossChecked ==
    Balanced =>
        /\ Len(slice_areas) >= 2
        /\ 100 * Abs(TwiceTrapezoid(slice_areas, Len(slice_areas))
                      - 2 * gauss.volume) <= 2 * gauss.volume

\* C26: for a positive mass the check prints PASS exactly when
\* |displacement - mass| / mass <= tolerance and FAIL otherwise; with FAIL it
\* reports lift-off (too light) when the displacement exceeds the mass and
\* sinking (too heavy) otherwise.
C26_PassFail ==
    (Balanced /\ opt.mass > 0) =>
        /\ verdict = "PASS" <=> WithinBalance
        /\ verdict = "FAIL" <=> ~WithinBalance
        /\ verdict = "FAIL" =>
              (advice = "LIGHT" <=> Displacement > opt.mass)
        /\ verdict = "FAIL" =>
              (advice = "HEAVY" <=> Displacement <= opt.mass)
        /\ verdict = "PASS" => advice = "none"

\* A too-heavy FAIL just outside the default tolerance
C26_Witness ==
    /\ Balanced /\ opt.mass > 0 /\ opt.tolerance = DefaultTolerance
    /\ verdict = "FAIL" /\ advice = "HEAVY"
    /\ 100 * (opt.mass - Displacement) > 10 * opt.mass
    /\ 100 * (opt.mass - Displacement) <= 20 * opt.mass

----------------------------------------------------------------------------
(* Properties of the runner *)

\* Hull h has a task running
Running(h) == \E k \in 1..Len(Stages) : stage[h][k] = "running"

\* C24: after main returns, for the hull at argument position i the
\* directory case_<stem>_<i> exists and its constant/triSurface/hull.stl is
\* a copy of that hull.
C24_CaseHoldsHull ==
    rpc = "returned" =>
        \A h \in 1..Len(hull_stls) :
            <<CaseDir(hull_stls[h].stem, h - 1), hull_stls[h].data>> \in fs

\* Main has returned for two hulls of the same stem and different content
C24_Witness ==
    /\ rpc = "returned" /\ Len(hull_stls) = 2
    /\ hull_stls[1].stem = hull_stls[2].stem
    /\ hull_stls[1].data # hull_stls[2].data
    /\ Cardinality(fs) = 2

\* C25: in both modes a task of a hull has started only if the task before
\* it in the order setup, meshing, setFields, solver, post, extract has
\* returned; so after a task raises, no later task of that hull runs.
C25_StagesInOrder ==
    \A h \in 1..Len(stage) : \A k \in 2..Len(Stages) :
        stage[h][k] # "pending" => stage[h][k - 1] = "done"

\* With parallel: one hull failed in meshing while the other has reached
\* its solver
C25_Witness ==
    /\ parallel /\ Len(stage) = 2
    /\ stage[1][2] = "failed" /\ stage[1][3] = "pending"
    /\ stage[2][4] = "running"

\* C29: the case directories of one invocation are pairwise distinct, also
\* for equal stems, and two hulls whose tasks run at the same time work in
\* different case directories.
C29_DistinctCaseDirs ==
    \A g, h \in 1..Len(case_dirs) :
        g # h =>
            /\ case_dirs[g] # case_dirs[h]
            /\ (Running(g) /\ Running(h)) =>
                  CaseDir(hull_stls[g].stem, g - 1)
                      # CaseDir(hull_stls[h].stem, h - 1)

\* With parallel: two hulls of the same stem run their setup at once
C29_Witness ==
    /\ parallel /\ Len(case_dirs) = 2
    /\ hull_stls[1].stem = hull_stls[2].stem
    /\ stage[1][1] = "running" /\ stage[2][1] = "running"

====
